---- MODULE Spec2Model ----
(***************************************************************************)
(* AiMonitor_FHE: the encrypted record registry and the decryption-oracle  *)
(* callback protocol of the contract, as a state machine.  One action per  *)
(* external function of the contract; a reverted call leaves the contract  *)
(* storage and the event log as they were and only records its outcome.    *)
(*                                                                         *)
(* Ciphertext handles (euint32) are modelled by the value they encrypt;    *)
(* the contract never inspects them.  The FHE library, the decryption      *)
(* oracle and the KMS signature are external: a request id is a fresh      *)
(* counter value, and a proof verifies exactly when it is the signature    *)
(* over the request id and the cleartexts of the call.                     *)
(***************************************************************************)
EXTENDS Integers, Naturals, Sequences, FiniteSets, Bags, TLC

(* ------------------------------ bounds --------------------------------- *)
MaxRecords == 2
MaxRequests == 2
MaxUpdates == 2
MaxRuns == 2

(* the largest uint32 whose product with 100 is still a uint32:              *)
(* floor((2^32 - 1) / 100).  TLC integers are 32-bit signed, so the uint32  *)
(* overflow of `error * 100` is decided by comparing error with this value. *)
MaxMulOperand == 42949672

ModelIds == {"", "a"}
PredictionIds == 0..MaxRecords
RequestIds == 0..MaxRequests
Timestamps == {7}

(* ciphertext triples a caller submits: (input, prediction, groundTruth) *)
Submissions == {<<10, 80, 70>>}

(* cleartext triples a callback may carry in the protocol specification *)
Cleartexts == {<<100, 90, 92>>, <<0, 5, 0>>}

(* cleartext triples a metrics callback may carry: (accuracy, drift, errorRate) *)
MetricCleartexts == {<<3, 2, 1>>}

(* metric deltas passed to updateModelMetrics *)
Deltas == {<<1, 2, 3>>}

(* the KMS signature over (requestId, cleartexts) *)
Sign(requestId, cleartexts) == <<"sig", requestId, cleartexts>>
Forged == <<"forged", 0, <<0, 0, 0>>>>
(* proofs tried with a call: the genuine signature, the signature of the    *)
(* same cleartexts under another request id, and bytes that are no signature *)
ProofsFor(requestId, cleartexts) ==
  { Sign(requestId, cleartexts),
    Sign((requestId + 1) % (MaxRequests + 1), cleartexts),
    Forged }

(* ------------------------------ storage -------------------------------- *)
VARIABLES
  predictionCount,        \* uint256 public predictionCount
  predictions,            \* mapping(uint256 => EncryptedPrediction)
  modelPerformance,       \* mapping(string => PerformanceMetrics)
  performanceAlerts,      \* mapping(uint256 => DecryptedAlert)
  requestToPredictionId,  \* mapping(uint256 => uint256)
  requestToModelId,       \* mapping(uint256 => string)
  monitoredModels,        \* string[]
  counterRequest,         \* the decryption oracle's request counter
  updateCount,            \* number of updateModelMetrics calls so far
  events,                 \* the event log, as a bag
  consumed,               \* request ids whose callback has been processed
  issuedBy,               \* which function obtained each request id
  lastCall,               \* the last external call and its outcome
  store,                  \* the dashboard's key-value data on chain
  runs                    \* each submitMetric run of the dashboard

storage == <<predictionCount, predictions, modelPerformance, performanceAlerts,
             requestToPredictionId, requestToModelId, monitoredModels>>
vars == <<predictionCount, predictions, modelPerformance, performanceAlerts,
          requestToPredictionId, requestToModelId, monitoredModels,
          counterRequest, updateCount, events, consumed, issuedBy, lastCall,
          store, runs>>

(* the zero value of each struct: what an unset mapping slot reads as *)
NoHandle == [init |-> FALSE, val |-> 0]
Handle(v) == [init |-> TRUE, val |-> v]
ZeroPrediction ==
  [id |-> 0, encryptedInput |-> NoHandle, encryptedPrediction |-> NoHandle,
   encryptedGroundTruth |-> NoHandle, timestamp |-> 0, modelId |-> ""]
ZeroMetrics ==
  [encryptedAccuracy |-> NoHandle, encryptedDriftScore |-> NoHandle,
   encryptedErrorRate |-> NoHandle]
ZeroAlert ==
  [performanceScore |-> 0, alertLevel |-> "", needsRetraining |-> FALSE,
   isRevealed |-> FALSE]

(* the dashboard: submitMetric runs of its clients.  A byte string is       *)
(* empty or the JSON text of a value; a metric id (timestamp plus random    *)
(* suffix) is taken to be unique to its run.                                *)
Runs == 1..MaxRuns
NoBytes == <<>>
toUtf8BytesJson(value) == <<"json", value>>
parseJson(bytes) == bytes[2]
parseKeys(keysBytes) == IF Len(keysBytes) > 0 THEN parseJson(keysBytes) ELSE <<>>
metricId(run) == run
KeysKey == <<"metric_keys">>
MetricKey(id) == <<"metric_", id>>
StoreKeys == {KeysKey} \cup {MetricKey(metricId(run)) : run \in Runs}
dashboard == <<store, runs>>

Init ==
  /\ store = [key \in StoreKeys |-> NoBytes]
  /\ runs = [r \in Runs |-> [pc |-> "idle", keys |-> <<>>, metrics |-> {}]]
  /\ predictionCount = 0
  /\ predictions = [i \in PredictionIds |-> ZeroPrediction]
  /\ modelPerformance = [m \in ModelIds |-> ZeroMetrics]
  /\ performanceAlerts = [i \in PredictionIds |-> ZeroAlert]
  /\ requestToPredictionId = [r \in RequestIds |-> 0]
  /\ requestToModelId = [r \in RequestIds |-> ""]
  /\ monitoredModels = <<>>
  /\ counterRequest = 0
  /\ updateCount = 0
  /\ events = EmptyBag
  /\ consumed = {}
  /\ issuedBy = [r \in RequestIds |-> "nobody"]
  /\ lastCall = [op |-> "constructor", args |-> <<>>, result |-> "ok"]

(* ------------------------------ helpers -------------------------------- *)
Emit(e) == events' = events (+) SetToBag({e})

(* a reverted call: storage and log untouched, the outcome recorded *)
Revert(op, args, reason) ==
  /\ lastCall' = [op |-> op, args |-> args, result |-> reason]
  /\ UNCHANGED <<storage, counterRequest, updateCount, events, consumed, issuedBy>>
  /\ UNCHANGED dashboard

Done(op, args) ==
  /\ lastCall' = [op |-> op, args |-> args, result |-> "ok"]
  /\ UNCHANGED dashboard

(* FHE.checkSignatures: reverts unless the proof is the KMS signature *)
checkSignaturesAcceptAll(requestId, cleartexts, proof) == TRUE
checkSignatures(requestId, cleartexts, proof) == proof = Sign(requestId, cleartexts)

(* FHE.add on euint32: an uninitialised operand counts as 0.  The sums the   *)
(* bounds allow stay far below 2^32, so the wrap is never reached.          *)
FHEaddReplace(a, b) == Handle(b.val)
FHEadd(a, b) == Handle(a.val + b.val)

isModelMonitoredSkipFirst(modelId) ==
  \E i \in 2..Len(monitoredModels) : monitoredModels[i] = modelId
isModelMonitored(modelId) ==
  \E i \in 1..Len(monitoredModels) : monitoredModels[i] = modelId

(* uint32 arithmetic of Solidity 0.8 is checked: `error * 100` panics when   *)
(* it exceeds 2^32 - 1 and `100 - q` panics when q > 100.                   *)
calculatePerformanceScoreClamped(input, prediction, groundTruth) ==
  LET error == IF prediction > groundTruth THEN prediction - groundTruth
               ELSE groundTruth - prediction
  IN IF error > MaxMulOperand THEN [ok |-> FALSE, val |-> 0]
     ELSE LET quot == (error * 100) \div (IF input > 0 THEN input ELSE 1)
          IN IF quot > 100 THEN [ok |-> TRUE, val |-> 0]
             ELSE [ok |-> TRUE, val |-> 100 - quot]
calculatePerformanceScoreSigned(input, prediction, groundTruth) ==
  LET error == IF prediction > groundTruth THEN prediction - groundTruth
               ELSE groundTruth - prediction
  IN IF error > MaxMulOperand THEN [ok |-> FALSE, val |-> 0]
     ELSE [ok |-> TRUE,
           val |-> 100 - ((error * 100) \div (IF input > 0 THEN input ELSE 1))]
calculatePerformanceScoreSkewed(input, prediction, groundTruth) ==
  LET error == IF prediction > groundTruth THEN prediction - groundTruth
               ELSE groundTruth - prediction
  IN IF error > MaxMulOperand THEN [ok |-> FALSE, val |-> 0]
     ELSE LET quot == (error * 100) \div (input + 1)
          IN IF quot > 100 THEN [ok |-> FALSE, val |-> 0]
             ELSE [ok |-> TRUE, val |-> 100 - quot]
calculatePerformanceScore(input, prediction, groundTruth) ==
  LET error == IF prediction > groundTruth THEN prediction - groundTruth
               ELSE groundTruth - prediction
  IN IF error > MaxMulOperand
     THEN [ok |-> FALSE, val |-> 0]                 \* error * 100 overflows
     ELSE LET quot == (error * 100) \div (IF input > 0 THEN input ELSE 1)
          IN IF quot > 100
             THEN [ok |-> FALSE, val |-> 0]         \* 100 - quot underflows
             ELSE [ok |-> TRUE, val |-> 100 - quot]

determineAlertLevelShifted(score) ==
  IF score < 50 THEN "Critical"
  ELSE IF score < 60 THEN "Warning"
  ELSE IF score < 85 THEN "Notice"
  ELSE "Normal"
determineAlertLevel(score) ==
  IF score < 50 THEN "Critical"
  ELSE IF score < 70 THEN "Warning"
  ELSE IF score < 85 THEN "Notice"
  ELSE "Normal"

(* ------------------------------ actions -------------------------------- *)
(* modifier onlyModelOwner: its body is the bare placeholder, it reads       *)
(* neither msg.sender nor modelId and lets every call through              *)
onlyModelOwner(modelId) == TRUE

nextPredictionIdFirst(count) == 1
nextPredictionIdStuck(count) == IF count = 0 THEN 1 ELSE count
nextPredictionId(count) == count + 1

recordEncryptedPrediction(modelId, ct, timestamp) ==
  LET newId == nextPredictionId(predictionCount) IN
  /\ onlyModelOwner(modelId)
  /\ predictionCount < MaxRecords
  /\ predictionCount' = newId
  /\ predictions' = [predictions EXCEPT ![newId] =
        [id |-> newId, encryptedInput |-> Handle(ct[1]),
         encryptedPrediction |-> Handle(ct[2]),
         encryptedGroundTruth |-> Handle(ct[3]),
         timestamp |-> timestamp, modelId |-> modelId]]
  /\ performanceAlerts' = [performanceAlerts EXCEPT ![newId] = ZeroAlert]
  /\ IF ~isModelMonitored(modelId)
     THEN /\ monitoredModels' = Append(monitoredModels, modelId)
          /\ modelPerformance' = [modelPerformance EXCEPT ![modelId] =
                [encryptedAccuracy |-> Handle(0), encryptedDriftScore |-> Handle(0),
                 encryptedErrorRate |-> Handle(0)]]
     ELSE UNCHANGED <<monitoredModels, modelPerformance>>
  /\ Emit(<<"PredictionRecorded", newId, modelId, timestamp>>)
  /\ Done("recordEncryptedPrediction", <<modelId, ct, timestamp>>)
  /\ UNCHANGED <<requestToPredictionId, requestToModelId, counterRequest,
                 updateCount, consumed, issuedBy>>

requestPerformanceAnalysisUnguarded(predictionId) ==
  LET reqId == counterRequest + 1 IN
  /\ counterRequest < MaxRequests
  /\ counterRequest' = reqId
  /\ requestToPredictionId' = [requestToPredictionId EXCEPT ![reqId] = predictionId]
  /\ issuedBy' = [issuedBy EXCEPT ![reqId] = "requestPerformanceAnalysis"]
  /\ Emit(<<"PerformanceAnalysisRequested", predictionId>>)
  /\ Done("requestPerformanceAnalysis", <<predictionId>>)
  /\ UNCHANGED <<predictionCount, predictions, modelPerformance,
                 performanceAlerts, requestToModelId, monitoredModels,
                 updateCount, consumed>>
requestPerformanceAnalysisAlsoModel(predictionId) ==
  IF performanceAlerts[predictionId].isRevealed
  THEN Revert("requestPerformanceAnalysis", <<predictionId>>, "Already analyzed")
  ELSE LET reqId == counterRequest + 1 IN
       /\ counterRequest < MaxRequests
       /\ counterRequest' = reqId
       /\ requestToPredictionId' = [requestToPredictionId EXCEPT ![reqId] = predictionId]
       /\ requestToModelId' =
            [requestToModelId EXCEPT ![reqId] = predictions[predictionId].modelId]
       /\ issuedBy' = [issuedBy EXCEPT ![reqId] = "requestPerformanceAnalysis"]
       /\ Emit(<<"PerformanceAnalysisRequested", predictionId>>)
       /\ Done("requestPerformanceAnalysis", <<predictionId>>)
       /\ UNCHANGED <<predictionCount, predictions, modelPerformance,
                      performanceAlerts, monitoredModels, updateCount, consumed>>
requestPerformanceAnalysis(predictionId) ==
  /\ onlyModelOwner(predictions[predictionId].modelId)
  /\ IF performanceAlerts[predictionId].isRevealed
     THEN Revert("requestPerformanceAnalysis", <<predictionId>>, "Already analyzed")
     ELSE LET reqId == counterRequest + 1 IN
          /\ counterRequest < MaxRequests
          /\ counterRequest' = reqId
          /\ requestToPredictionId' = [requestToPredictionId EXCEPT ![reqId] = predictionId]
          /\ issuedBy' = [issuedBy EXCEPT ![reqId] = "requestPerformanceAnalysis"]
          /\ Emit(<<"PerformanceAnalysisRequested", predictionId>>)
          /\ Done("requestPerformanceAnalysis", <<predictionId>>)
          /\ UNCHANGED <<predictionCount, predictions, modelPerformance,
                         performanceAlerts, requestToModelId, monitoredModels,
                         updateCount, consumed>>

needsRetraining(score) == score < 60

(* the require chain of the analysis callback up to the proof check: the   *)
(* reason it reverts with, or "ok" when the callback goes on to the score  *)
processPerformanceAnalysisReverts(requestId, cleartexts, proof) ==
  LET predictionId == requestToPredictionId[requestId]
  IN IF predictionId = 0 THEN "Invalid request"
     ELSE IF performanceAlerts[predictionId].isRevealed THEN "Already processed"
     ELSE IF ~checkSignatures(requestId, cleartexts, proof) THEN "Invalid proof"
     ELSE "ok"

processPerformanceAnalysis(requestId, cleartexts, proof) ==
  LET predictionId == requestToPredictionId[requestId]
      score == calculatePerformanceScore(cleartexts[1], cleartexts[2], cleartexts[3])
  IN IF predictionId = 0
     THEN Revert("processPerformanceAnalysis", <<requestId, cleartexts>>, "Invalid request")
     ELSE IF performanceAlerts[predictionId].isRevealed
     THEN Revert("processPerformanceAnalysis", <<requestId, cleartexts>>, "Already processed")
     ELSE IF ~checkSignatures(requestId, cleartexts, proof)
     THEN Revert("processPerformanceAnalysis", <<requestId, cleartexts>>, "Invalid proof")
     ELSE IF ~score.ok
     THEN Revert("processPerformanceAnalysis", <<requestId, cleartexts>>, "Panic")
     ELSE /\ performanceAlerts' = [performanceAlerts EXCEPT ![predictionId] =
                [performanceScore |-> score.val,
                 alertLevel |-> determineAlertLevel(score.val),
                 needsRetraining |-> needsRetraining(score.val),
                 isRevealed |-> TRUE]]
          /\ Emit(<<"PerformanceAlertDecrypted", predictionId>>)
          /\ consumed' = consumed \cup {requestId}
          /\ Done("processPerformanceAnalysis", <<requestId, cleartexts>>)
          /\ UNCHANGED <<predictionCount, predictions, modelPerformance,
                         requestToPredictionId, requestToModelId, monitoredModels,
                         counterRequest, updateCount, issuedBy>>

updateModelMetrics(modelId, d) ==
  LET metrics == modelPerformance[modelId] IN
  /\ onlyModelOwner(modelId)
  /\ updateCount < MaxUpdates
  /\ updateCount' = updateCount + 1
  /\ modelPerformance' = [modelPerformance EXCEPT ![modelId] =
        [encryptedAccuracy |-> FHEadd(metrics.encryptedAccuracy, Handle(d[1])),
         encryptedDriftScore |-> FHEadd(metrics.encryptedDriftScore, Handle(d[2])),
         encryptedErrorRate |-> FHEadd(metrics.encryptedErrorRate, Handle(d[3]))]]
  /\ Done("updateModelMetrics", <<modelId, d>>)
  /\ UNCHANGED <<predictionCount, predictions, performanceAlerts,
                 requestToPredictionId, requestToModelId, monitoredModels,
                 counterRequest, events, consumed, issuedBy>>

requestModelMetricsDecryptionSharedMap(modelId) ==
  LET reqId == counterRequest + 1 IN
  /\ counterRequest < MaxRequests
  /\ counterRequest' = reqId
  /\ requestToModelId' = [requestToModelId EXCEPT ![reqId] = modelId]
  /\ requestToPredictionId' =
       [requestToPredictionId EXCEPT ![reqId] = predictionCount]
  /\ issuedBy' = [issuedBy EXCEPT ![reqId] = "requestModelMetricsDecryption"]
  /\ Done("requestModelMetricsDecryption", <<modelId>>)
  /\ UNCHANGED <<predictionCount, predictions, modelPerformance, performanceAlerts,
                 monitoredModels, updateCount, events, consumed>>
requestModelMetricsDecryption(modelId) ==
  LET reqId == counterRequest + 1 IN
  /\ onlyModelOwner(modelId)
  /\ counterRequest < MaxRequests
  /\ counterRequest' = reqId
  /\ requestToModelId' = [requestToModelId EXCEPT ![reqId] = modelId]
  /\ issuedBy' = [issuedBy EXCEPT ![reqId] = "requestModelMetricsDecryption"]
  /\ Done("requestModelMetricsDecryption", <<modelId>>)
  /\ UNCHANGED <<predictionCount, predictions, modelPerformance, performanceAlerts,
                 requestToPredictionId, monitoredModels, updateCount, events,
                 consumed>>

decryptModelMetricsRevealing(requestId, cleartexts, proof) ==
  IF requestToModelId[requestId] = ""
  THEN Revert("decryptModelMetrics", <<requestId, cleartexts>>, "Invalid request")
  ELSE IF ~checkSignatures(requestId, cleartexts, proof)
  THEN Revert("decryptModelMetrics", <<requestId, cleartexts>>, "Invalid proof")
  ELSE /\ consumed' = consumed \cup {requestId}
       /\ performanceAlerts' =
            [performanceAlerts EXCEPT ![requestId].isRevealed = TRUE]
       /\ Done("decryptModelMetrics", <<requestId, cleartexts>>)
       /\ UNCHANGED <<predictionCount, predictions, modelPerformance,
                      requestToPredictionId, requestToModelId, monitoredModels,
                      counterRequest, updateCount, events, issuedBy>>
decryptModelMetrics(requestId, cleartexts, proof) ==
  IF requestToModelId[requestId] = ""
  THEN Revert("decryptModelMetrics", <<requestId, cleartexts>>, "Invalid request")
  ELSE IF ~checkSignatures(requestId, cleartexts, proof)
  THEN Revert("decryptModelMetrics", <<requestId, cleartexts>>, "Invalid proof")
  ELSE /\ consumed' = consumed \cup {requestId}
       /\ Done("decryptModelMetrics", <<requestId, cleartexts>>)
       /\ UNCHANGED <<storage, counterRequest, updateCount, events, issuedBy>>

getDecryptedAlert(predictionId) ==
  LET a == performanceAlerts[predictionId]
  IN <<a.performanceScore, a.alertLevel, a.needsRetraining, a.isRevealed>>

Next ==
  \/ \E m \in ModelIds, ct \in Submissions, t \in Timestamps :
        recordEncryptedPrediction(m, ct, t)
  \/ \E p \in PredictionIds : requestPerformanceAnalysis(p)
  \/ \E r \in RequestIds, c \in Cleartexts :
        \E pf \in ProofsFor(r, c) : processPerformanceAnalysis(r, c, pf)
  \/ \E m \in ModelIds, d \in Deltas : updateModelMetrics(m, d)
  \/ \E m \in ModelIds : requestModelMetricsDecryption(m)
  \/ \E r \in RequestIds, c \in MetricCleartexts :
        \E pf \in ProofsFor(r, c) : decryptModelMetrics(r, c, pf)

Spec == Init /\ [][Next]_vars

(* The record analysis path alone: submission, analysis request and the    *)
(* analysis callback, with every request id, cleartext and proof of the     *)
(* full specification.                                                      *)
NextAnalysis ==
  \/ \E m \in ModelIds, ct \in Submissions, t \in Timestamps :
        recordEncryptedPrediction(m, ct, t)
  \/ \E p \in PredictionIds : requestPerformanceAnalysis(p)
  \/ \E r \in RequestIds, c \in Cleartexts :
        \E pf \in ProofsFor(r, c) : processPerformanceAnalysis(r, c, pf)

SpecAnalysis == Init /\ [][NextAnalysis]_vars

(* The registry and the metrics path alone: submission, metric updates,    *)
(* the metrics decryption request and its callback.                         *)
NextMetrics ==
  \/ \E m \in ModelIds, ct \in Submissions, t \in Timestamps :
        recordEncryptedPrediction(m, ct, t)
  \/ \E m \in ModelIds, d \in Deltas : updateModelMetrics(m, d)
  \/ \E m \in ModelIds : requestModelMetricsDecryption(m)
  \/ \E r \in RequestIds, c \in MetricCleartexts :
        \E pf \in ProofsFor(r, c) : decryptModelMetrics(r, c, pf)

SpecMetrics == Init /\ [][NextMetrics]_vars

(* Both callbacks against request ids of both kinds, on one model and     *)
(* without metric updates.                                                  *)
NextCallbacks ==
  \/ \E ct \in Submissions, t \in Timestamps : recordEncryptedPrediction("a", ct, t)
  \/ \E p \in PredictionIds : requestPerformanceAnalysis(p)
  \/ \E r \in RequestIds, c \in Cleartexts :
        \E pf \in ProofsFor(r, c) : processPerformanceAnalysis(r, c, pf)
  \/ \E m \in ModelIds : requestModelMetricsDecryption(m)
  \/ \E r \in RequestIds, c \in MetricCleartexts :
        \E pf \in ProofsFor(r, c) : decryptModelMetrics(r, c, pf)

SpecCallbacks == Init /\ [][NextCallbacks]_vars

(* The score computation over a wider set of cleartexts, on one model:     *)
(* records are submitted, the first one is analysed and revealed through   *)
(* the first request id; the metrics path is left out.                      *)
ScoreInputs == {0, 1, 10, 100}
ScorePredictions == {0, 1, 5, 35, 45, 80, 90}
ScoreGroundTruths == {0, 70, 92}
ScoreCleartexts ==
  (ScoreInputs \X ScorePredictions \X ScoreGroundTruths)
    \cup {<<1, MaxMulOperand + 1, 0>>, <<0, MaxMulOperand + 1, 0>>}

NextScore ==
  \/ \E ct \in Submissions, t \in Timestamps : recordEncryptedPrediction("a", ct, t)
  \/ requestPerformanceAnalysis(1)
  \/ \E c \in ScoreCleartexts : processPerformanceAnalysis(1, c, Sign(1, c))

SpecScore == Init /\ [][NextScore]_vars

(* ----------------------------- dashboard ------------------------------- *)
(* submitMetric and the loadMetrics it ends with, one action per stretch   *)
(* between two awaits; every await lets the runs of other clients in.  A   *)
(* setData transaction takes effect when its call resolves, or is rejected *)
(* and throws.                                                             *)
contractState == <<storage, counterRequest, updateCount, events, consumed,
                   issuedBy, lastCall>>
getData(key) == store[key]
setData(key, value) == store' = [store EXCEPT ![key] = value]
Goto(run, label) == runs' = [runs EXCEPT ![run].pc = label]

(* up to the end of `await contract.setData("metric_<id>", ...)` *)
submitMetricStore(run) ==
  /\ runs[run].pc = "idle"
  /\ \/ /\ setData(MetricKey(metricId(run)), toUtf8BytesJson([owner |-> run]))
        /\ Goto(run, "readKeys")
     \/ /\ Goto(run, "error")
        /\ UNCHANGED store
  /\ UNCHANGED contractState

(* `await contract.getData("metric_keys")`, the parse and keys.push *)
submitMetricReadKeys(run) ==
  /\ runs[run].pc = "readKeys"
  /\ runs' = [runs EXCEPT ![run].pc = "writeKeys",
                          ![run].keys = Append(parseKeys(getData(KeysKey)),
                                               metricId(run))]
  /\ UNCHANGED <<store, contractState>>

(* `await contract.setData("metric_keys", ...)` and the success status *)
submitMetricWriteKeys(run) ==
  /\ runs[run].pc = "writeKeys"
  /\ \/ /\ setData(KeysKey, toUtf8BytesJson(runs[run].keys))
        /\ Goto(run, "loadKeys")
     \/ /\ Goto(run, "error")
        /\ UNCHANGED store
  /\ UNCHANGED contractState

(* loadMetrics: `await contract.getData("metric_keys")` and the parse *)
loadMetricsKeys(run) ==
  /\ runs[run].pc = "loadKeys"
  /\ runs' = [runs EXCEPT ![run].pc = "loadEntries",
                          ![run].keys = parseKeys(getData(KeysKey))]
  /\ UNCHANGED <<store, contractState>>

(* loadMetrics: the loop over the keys and setMetrics; the entries of the  *)
(* keys read are never rewritten, and the display order is left out        *)
loadMetricsEntries(run) ==
  /\ runs[run].pc = "loadEntries"
  /\ runs' = [runs EXCEPT ![run].pc = "done",
                          ![run].metrics =
                             {runs[run].keys[i] : i \in
                                {j \in 1..Len(runs[run].keys) :
                                   Len(getData(MetricKey(runs[run].keys[j]))) > 0}}]
  /\ UNCHANGED <<store, contractState>>

NextDashboard ==
  \/ \E run \in Runs : submitMetricStore(run)
  \/ \E run \in Runs : submitMetricReadKeys(run)
  \/ \E run \in Runs : submitMetricWriteKeys(run)
  \/ \E run \in Runs : loadMetricsKeys(run)
  \/ \E run \in Runs : loadMetricsEntries(run)

SpecDashboard == Init /\ [][NextDashboard]_vars

(* ------------------------------ claims --------------------------------- *)
(* what a step shows of the call that made it *)
Called(op) == lastCall'.op = op
Succeeded == lastCall'.result = "ok"

(* request ids issued for record p whose callback has not been processed *)
PendingFor(p) ==
  {r \in 1..counterRequest : requestToPredictionId[r] = p /\ r \notin consumed}
(* request ids issued for model m whose callback has not been processed *)
PendingForModel(m) ==
  {r \in 1..counterRequest : requestToModelId[r] = m /\ r \notin consumed}

(* the contract's rejections of a request id that is not live *)
UnknownRequest == {"Invalid request", "Already processed"}

(* C1: after one successful completeAnalysis(requestId), every later        *)
(* completeAnalysis with the same requestId fails with UnknownRequest and   *)
(* leaves all state unchanged.                                              *)
C1_ReplayRejected ==
  [][ (Called("processPerformanceAnalysis") /\ lastCall'.args[1] \in consumed)
        => (lastCall'.result \in UnknownRequest /\ UNCHANGED <<storage, events>>) ]_vars

(* C2: a completeAnalysis call whose proof does not verify changes nothing: *)
(* storage and event log are identical before and after, revealed is not    *)
(* set.                                                                     *)
C2_ForgedProofChangesNothing ==
  [][ Called("processPerformanceAnalysis") =>
        LET r == lastCall'.args[1]
            c == lastCall'.args[2]
        IN \A pf \in ProofsFor(r, c) :
             (pf /= Sign(r, c) /\ processPerformanceAnalysis(r, c, pf))
               => (~Succeeded /\ UNCHANGED <<storage, events, consumed>>) ]_vars
(* a forged proof was presented for a live request of an unrevealed record *)
C2_Witness ==
  /\ lastCall.op = "processPerformanceAnalysis"
  /\ lastCall.result = "Invalid proof"
  /\ lastCall.args[1] \in PendingFor(requestToPredictionId[lastCall.args[1]])
  /\ requestToPredictionId[lastCall.args[1]] \in 1..predictionCount

(* C3: an AlertState whose revealed flag is true keeps revealed = true and  *)
(* the same score, level and needsRetraining in every later state.          *)
C3_RevealedIsFinal ==
  [][ \A i \in PredictionIds :
        performanceAlerts[i].isRevealed => performanceAlerts'[i] = performanceAlerts[i] ]_vars

(* C4: while a request for a record is pending, a second requestAnalysis    *)
(* for that record fails with AlreadyPending and creates no PendingRequest. *)
C4_SecondRequestRejected ==
  [][ (/\ Called("requestPerformanceAnalysis")
       /\ lastCall'.args[1] \in 1..predictionCount
       /\ PendingFor(lastCall'.args[1]) /= {}
       /\ ~performanceAlerts[lastCall'.args[1]].isRevealed)
        => (/\ lastCall'.result = "AlreadyPending"
            /\ requestToPredictionId' = requestToPredictionId
            /\ counterRequest' = counterRequest) ]_vars

(* C5: for each record and each monitored model, at most one issued and not *)
(* yet consumed PendingRequest targets it.                                  *)
C5_AtMostOnePending ==
  /\ \A p \in 1..predictionCount : Cardinality(PendingFor(p)) <= 1
  /\ \A m \in ModelIds \ {""} :
        isModelMonitored(m) => Cardinality(PendingForModel(m)) <= 1

(* C6: each record is revealed at most once: at most one "alert revealed"   *)
(* notification is ever emitted for a record id.                            *)
C6_RevealedOnce ==
  \A i \in PredictionIds : CopiesIn(<<"PerformanceAlertDecrypted", i>>, events) <= 1

(* C7: every successful submitRecord reports an id greater than every id    *)
(* reported before, and the AlertState of the new id starts unrevealed.     *)
RecordedIds(log) == {e[2] : e \in {f \in BagToSet(log) : f[1] = "PredictionRecorded"}}
C7_FreshId ==
  [][ (Called("recordEncryptedPrediction") /\ Succeeded) =>
        \E e \in BagToSet(events') :
          /\ e[1] = "PredictionRecorded"
          /\ CopiesIn(e, events') = CopiesIn(e, events) + 1
          /\ \A old \in RecordedIds(events) : old < e[2]
          /\ e[2] > predictionCount
          /\ e[2] = predictionCount'
          /\ performanceAlerts'[e[2]] = ZeroAlert ]_vars
(* two records have been submitted *)
C7_Witness ==
  /\ lastCall.op = "recordEncryptedPrediction"
  /\ RecordedIds(events) = {1, 2}

(* C8: a successful completeAnalysis with plaintext (input, prediction,     *)
(* groundTruth) stores score = 100 - floor(|prediction - groundTruth| * 100 *)
(* / max(input, 1)); (10, 80, 70) gives 0 and (100, 90, 92) gives 98.       *)
AbsDiff(a, b) == IF a > b THEN a - b ELSE b - a
SpecScoreOf(c) == 100 - ((AbsDiff(c[2], c[3]) * 100) \div (IF c[1] > 1 THEN c[1] ELSE 1))
C8_StoredScore ==
  [][ (Called("processPerformanceAnalysis") /\ Succeeded) =>
        LET c == lastCall'.args[2]
            stored == performanceAlerts'[requestToPredictionId[lastCall'.args[1]]]
        IN /\ stored.isRevealed
           /\ stored.performanceScore = SpecScoreOf(c)
           /\ c = <<10, 80, 70>> => stored.performanceScore = 0
           /\ c = <<100, 90, 92>> => stored.performanceScore = 98 ]_vars
(* the second example of the claim has been delivered and stored *)
C8_Witness ==
  /\ lastCall.op = "processPerformanceAnalysis"
  /\ lastCall.result = "ok"
  /\ lastCall.args[2] = <<100, 90, 92>>
  /\ performanceAlerts[1].performanceScore = 98

(* C9: every revealed AlertState has level Critical if score < 50, Warning  *)
(* if 50 <= score < 70, Notice if 70 <= score < 85, Normal otherwise, and   *)
(* needsRetraining exactly when score < 60.                                 *)
SpecLevelOf(score) ==
  CASE score < 50 -> "Critical"
    [] score >= 50 /\ score < 70 -> "Warning"
    [] score >= 70 /\ score < 85 -> "Notice"
    [] score >= 85 -> "Normal"
C9_LevelMatchesScore ==
  \A i \in PredictionIds :
    performanceAlerts[i].isRevealed =>
      /\ performanceAlerts[i].alertLevel = SpecLevelOf(performanceAlerts[i].performanceScore)
      /\ performanceAlerts[i].needsRetraining = (performanceAlerts[i].performanceScore < 60)
(* a revealed Warning that does not ask for retraining: 60 <= score < 70 *)
C9_Witness ==
  \E i \in PredictionIds :
    /\ performanceAlerts[i].isRevealed
    /\ performanceAlerts[i].alertLevel = "Warning"
    /\ ~performanceAlerts[i].needsRetraining

(* C10 (as stated): for input = 0, prediction = 5, groundTruth = 0 a call   *)
(* with a live request id and a verifying proof stores the unclamped score  *)
(* 100 - (5 * 100 / 1).                                                     *)
LiveCall ==
  /\ Called("processPerformanceAnalysis")
  /\ lastCall'.result /= "Invalid proof"
  /\ requestToPredictionId[lastCall'.args[1]] /= 0
  /\ ~performanceAlerts[requestToPredictionId[lastCall'.args[1]]].isRevealed
C11_ScoreInRange ==
  \A i \in PredictionIds :
    performanceAlerts[i].isRevealed =>
      (performanceAlerts[i].performanceScore >= 0
         /\ performanceAlerts[i].performanceScore <= 100)
(* both ends of the range have been stored, and an out-of-range triple was  *)
(* delivered last                                                           *)
C11_Witness ==
  /\ performanceAlerts[1].isRevealed
  /\ performanceAlerts[1].performanceScore \in {0, 100}
  /\ lastCall.op = "processPerformanceAnalysis"
  /\ lastCall.result = "Already processed"
  /\ lastCall.args[2] = <<0, 5, 0>>

(* C12: after a completeAnalysis call failed with InvalidProof, a later     *)
(* completeAnalysis with the same requestId and a verifying proof succeeds  *)
(* and reveals the record (here: the very next call).                       *)
C12_RetrySucceeds ==
  [][ (/\ lastCall.op = "processPerformanceAnalysis"
       /\ lastCall.result = "Invalid proof"
       /\ Called("processPerformanceAnalysis")
       /\ lastCall'.args[1] = lastCall.args[1]
       /\ processPerformanceAnalysis(lastCall'.args[1], lastCall'.args[2],
                                     Sign(lastCall'.args[1], lastCall'.args[2])))
        => (/\ Succeeded
            /\ performanceAlerts'[requestToPredictionId[lastCall'.args[1]]].isRevealed) ]_vars

(* C13: requestAnalysis on a record whose AlertState is already revealed    *)
(* fails with AlreadyAnalyzed, issues no decrypt request, creates no        *)
(* PendingRequest and leaves all state unchanged.                           *)
C13_RevealedNotRequestedAgain ==
  [][ (Called("requestPerformanceAnalysis")
         /\ performanceAlerts[lastCall'.args[1]].isRevealed)
        => (/\ lastCall'.result = "Already analyzed"
            /\ UNCHANGED <<storage, counterRequest, events, consumed, issuedBy>>) ]_vars
(* analysis of a revealed, existing record was requested and refused *)
C13_Witness ==
  /\ lastCall.op = "requestPerformanceAnalysis"
  /\ lastCall.result = "Already analyzed"
  /\ lastCall.args[1] \in 1..predictionCount
  /\ performanceAlerts[lastCall.args[1]].isRevealed

(* C14: requestAnalysis is rejected for an id that no submitRecord has      *)
(* returned (0 or greater than the record count) and creates no             *)
(* PendingRequest, so no AlertState is revealed for an id without a record. *)
C14_OnlyExistingRecords ==
  [][ /\ (Called("requestPerformanceAnalysis")
            /\ lastCall'.args[1] \notin 1..predictionCount)
        => (/\ ~Succeeded
            /\ requestToPredictionId' = requestToPredictionId
            /\ counterRequest' = counterRequest)
      /\ \A i \in PredictionIds :
           performanceAlerts'[i].isRevealed => i \in 1..predictionCount' ]_vars

(* C15: a successful requestAnalysis changes only the PendingRequest map,   *)
(* adding requestId -> recordId: alerts, records, aggregates and the        *)
(* monitored-model set are unchanged.                                       *)
C15_RequestFrame ==
  [][ (Called("requestPerformanceAnalysis") /\ Succeeded) =>
        /\ UNCHANGED <<predictionCount, predictions, modelPerformance,
                       performanceAlerts, requestToModelId, monitoredModels>>
        /\ \E r \in RequestIds :
             /\ issuedBy[r] = "nobody"
             /\ requestToPredictionId' =
                  [requestToPredictionId EXCEPT ![r] = lastCall'.args[1]] ]_vars
(* a request for an existing record of model "a" has been stored *)
C15_Witness ==
  /\ lastCall.op = "requestPerformanceAnalysis"
  /\ lastCall.result = "ok"
  /\ lastCall.args[1] \in 1..predictionCount
  /\ predictions[lastCall.args[1]].modelId = "a"
  /\ requestToPredictionId[counterRequest] = lastCall.args[1]

(* C16: completeAnalysis with a requestId that requestAnalysis never        *)
(* issued, one issued by requestModelMetricsDecryption included, fails      *)
(* with UnknownRequest and changes nothing; so does the model metrics       *)
(* callback with a requestId that requestModelMetricsDecryption never       *)
(* issued, a record-analysis requestId included.                            *)
C16_ForeignRequestIdRejected ==
  [][ /\ (Called("processPerformanceAnalysis")
            /\ issuedBy[lastCall'.args[1]] # "requestPerformanceAnalysis")
        => (/\ lastCall'.result = "Invalid request"
            /\ UNCHANGED <<storage, counterRequest, events, consumed, issuedBy>>)
      /\ (Called("decryptModelMetrics")
            /\ issuedBy[lastCall'.args[1]] # "requestModelMetricsDecryption")
        => (/\ lastCall'.result = "Invalid request"
            /\ UNCHANGED <<storage, counterRequest, events, consumed, issuedBy>>) ]_vars
(* with a record stored and request ids of both kinds issued, the analysis  *)
(* callback was called with the id of the model metrics request             *)
C16_Witness ==
  /\ lastCall.op = "processPerformanceAnalysis"
  /\ lastCall.result = "Invalid request"
  /\ issuedBy[lastCall.args[1]] = "requestModelMetricsDecryption"
  /\ requestToModelId[lastCall.args[1]] = "a"
  /\ predictionCount >= 1
  /\ \E r \in RequestIds : issuedBy[r] = "requestPerformanceAnalysis"

(* C17: in every reachable state an AlertState with revealed = true belongs *)
(* to a stored record for which a requestAnalysis succeeded earlier.        *)
C17_RevealedWasRequested ==
  \A i \in PredictionIds :
    performanceAlerts[i].isRevealed =>
      /\ i \in 1..predictionCount
      /\ predictions[i].id = i
      /\ CopiesIn(<<"PerformanceAnalysisRequested", i>>, events) >= 1

(* C18: isModelMonitored(modelId) is true right after a successful          *)
(* submitRecord for that modelId, and once true it is true in every later   *)
(* state.                                                                   *)
C18_MonitoredForever ==
  [][ \A m \in ModelIds :
        /\ (Called("recordEncryptedPrediction") /\ Succeeded
              /\ lastCall'.args[1] = m) => isModelMonitored(m)'
        /\ isModelMonitored(m) => isModelMonitored(m)' ]_vars
(* both models were submitted, and other operations followed *)
C18_Witness ==
  /\ isModelMonitored("") /\ isModelMonitored("a")
  /\ Len(monitoredModels) = 2
  /\ updateCount >= 1
  /\ lastCall.op = "decryptModelMetrics"
  /\ lastCall.result = "ok"

(* C19: each accumulator of a model changes only by updateAggregate for     *)
(* that modelId, which adds its delta to the running value; every other     *)
(* operation, submitRecord included, leaves the accumulators as they are.   *)
C19_AccumulatorsOnlyAdd ==
  [][ \A m \in ModelIds :
        LET d == IF Called("updateModelMetrics") /\ lastCall'.args[1] = m
                 THEN lastCall'.args[2] ELSE <<0, 0, 0>>
        IN /\ modelPerformance'[m].encryptedAccuracy.val =
                modelPerformance[m].encryptedAccuracy.val + d[1]
           /\ modelPerformance'[m].encryptedDriftScore.val =
                modelPerformance[m].encryptedDriftScore.val + d[2]
           /\ modelPerformance'[m].encryptedErrorRate.val =
                modelPerformance[m].encryptedErrorRate.val + d[3] ]_vars

(* C20: every updateAggregate strictly increases each accumulator of its    *)
(* model, so the state after a second call with the same deltas differs     *)
(* from the state after the first, which differs from the state before.     *)
C20_UpdateNotIdempotent ==
  [][ (Called("updateModelMetrics") /\ Succeeded) =>
        LET m == lastCall'.args[1] IN
        /\ modelPerformance'[m] # modelPerformance[m]
        /\ modelPerformance'[m].encryptedAccuracy.val >
             modelPerformance[m].encryptedAccuracy.val
        /\ modelPerformance'[m].encryptedDriftScore.val >
             modelPerformance[m].encryptedDriftScore.val
        /\ modelPerformance'[m].encryptedErrorRate.val >
             modelPerformance[m].encryptedErrorRate.val ]_vars
(* a monitored model received the same deltas twice *)
C20_Witness ==
  /\ isModelMonitored("a")
  /\ updateCount = 2
  /\ lastCall.op = "updateModelMetrics"
  /\ lastCall.args = <<"a", <<1, 2, 3>>>>
  /\ modelPerformance["a"].encryptedAccuracy.val = 2
  /\ modelPerformance["a"].encryptedDriftScore.val = 4
  /\ modelPerformance["a"].encryptedErrorRate.val = 6

(* C21: updateAggregate for a modelId that has never been monitored fails   *)
(* with UnknownModel and leaves all state unchanged.                        *)
C21_UnknownModelRejected ==
  [][ (Called("updateModelMetrics") /\ ~isModelMonitored(lastCall'.args[1]))
        => (/\ ~Succeeded
            /\ UNCHANGED <<storage, counterRequest, events>>) ]_vars

(* C22: after one successful completeModelMetricsDecryption(requestId), a   *)
(* second call with the same requestId is rejected.                         *)
C22_MetricsRequestSingleUse ==
  [][ (Called("decryptModelMetrics")
         /\ issuedBy[lastCall'.args[1]] = "requestModelMetricsDecryption"
         /\ lastCall'.args[1] \in consumed)
        => ~Succeeded ]_vars

(* the callers of the contract and the answer of the authorization          *)
(* collaborator for each (caller, modelId)                                  *)
Callers == {"owner", "stranger"}
isAuthorized(caller, modelId) == caller = "owner"
(* the modelId a guarded call is checked for *)
GuardedModelId ==
  IF Called("requestPerformanceAnalysis")
  THEN predictions[lastCall'.args[1]].modelId
  ELSE lastCall'.args[1]
(* C23: submitRecord, updateAggregate, requestAnalysis and                  *)
(* requestModelMetricsDecryption fail with Unauthorized and leave the state *)
(* unchanged when the authorization collaborator answers false for the      *)
(* caller and the modelId. No function reads msg.sender, so every step of   *)
(* these four is a step each caller can take.                               *)
C23_UnauthorizedRejected ==
  [][ \A caller \in Callers :
        (/\ lastCall'.op \in {"recordEncryptedPrediction", "updateModelMetrics",
                              "requestPerformanceAnalysis",
                              "requestModelMetricsDecryption"}
         /\ ~isAuthorized(caller, GuardedModelId))
        => (/\ ~Succeeded
            /\ UNCHANGED <<storage, counterRequest, events>>) ]_vars

(* C24: a completeAnalysis call with a non-verifying proof has the same     *)
(* outcome whether or not its requestId is live: across a step in which     *)
(* requestAnalysis makes a request id live, the outcome of the forged call  *)
(* with that id is the same before and after.                               *)
C24_ForgedOutcomeHidesLiveness ==
  [][ (Called("requestPerformanceAnalysis") /\ Succeeded) =>
        \A r \in RequestIds, c \in Cleartexts :
          (r = counterRequest') =>
            processPerformanceAnalysisReverts(r, c, Forged)' =
              processPerformanceAnalysisReverts(r, c, Forged) ]_vars

(* C25: requestModelMetricsDecryption and completeModelMetricsDecryption,   *)
(* successful or failed, leave every AlertState as it was.                  *)
C25_MetricsPathKeepsAlerts ==
  [][ (Called("requestModelMetricsDecryption") \/ Called("decryptModelMetrics"))
        => /\ performanceAlerts' = performanceAlerts
           /\ \A i \in PredictionIds : getDecryptedAlert(i)' = getDecryptedAlert(i) ]_vars
(* a model metrics callback succeeded while a revealed alert was stored *)
C25_Witness ==
  /\ lastCall.op = "decryptModelMetrics"
  /\ lastCall.result = "ok"
  /\ performanceAlerts[1].isRevealed
  /\ performanceAlerts[1].performanceScore = 98
  /\ predictionCount >= 1

(* C26: an AlertState with revealed = false holds the zero defaults, and    *)
(* getAlert on an unrevealed or unknown record id returns exactly the       *)
(* defaults (0, empty level, false, false).                                 *)
C26_UnrevealedReadsDefaults ==
  \A i \in PredictionIds :
    (~performanceAlerts[i].isRevealed \/ i \notin 1..predictionCount)
      => getDecryptedAlert(i) = <<0, "", FALSE, FALSE>>

(* C27: once submitRecord has returned an id, the record stored under it    *)
(* (modelId, three ciphertext handles, timestamp) is the same in every      *)
(* later state, and the record count never decreases.                       *)
C27_RecordsImmutable ==
  [][ /\ predictionCount' >= predictionCount
      /\ \A i \in 1..predictionCount : predictions'[i] = predictions[i] ]_vars
(* two records of different models are stored and an update followed *)
C27_Witness ==
  /\ predictionCount = 2
  /\ predictions[1].id = 1 /\ predictions[2].id = 2
  /\ predictions[1].modelId # predictions[2].modelId
  /\ predictions[1].encryptedInput = Handle(10)
  /\ lastCall.op = "updateModelMetrics"

(* C28: a completeAnalysis call with a live requestId (issued for a record  *)
(* that is not yet revealed) and a verifying proof succeeds and sets        *)
(* revealed = true, for every plaintext triple delivered.                   *)
C28_LiveCallbackReveals ==
  [][ \A r \in RequestIds, c \in Cleartexts :
        (/\ r \in PendingFor(requestToPredictionId[r])
         /\ requestToPredictionId[r] \in 1..predictionCount
         /\ ~performanceAlerts[requestToPredictionId[r]].isRevealed
         /\ processPerformanceAnalysis(r, c, Sign(r, c)))
        => (/\ Succeeded
            /\ performanceAlerts'[requestToPredictionId[r]].isRevealed) ]_vars

(* C29: every request id issued by requestModelMetricsDecryption(modelId)   *)
(* is accepted by completeModelMetricsDecryption when delivered with a      *)
(* verifying proof, for every modelId.                                      *)
C29_MetricsCallbackAccepted ==
  [][ \A r \in RequestIds, c \in MetricCleartexts :
        (/\ issuedBy[r] = "requestModelMetricsDecryption"
         /\ decryptModelMetrics(r, c, Sign(r, c)))
        => Succeeded ]_vars

(* C30: the monitored-model list holds each modelId at most once and holds  *)
(* exactly the modelIds that own a ModelAggregate.                          *)
C30_MonitoredIsAggregateOwners ==
  /\ \A i, j \in 1..Len(monitoredModels) :
       monitoredModels[i] = monitoredModels[j] => i = j
  /\ \A m \in ModelIds :
       isModelMonitored(m) <=> modelPerformance[m] # ZeroMetrics

(* the metric ids in the stored "metric_keys" list *)
StoredKeys ==
  {parseKeys(getData(KeysKey))[i] : i \in 1..Len(parseKeys(getData(KeysKey)))}
(* C31: when two submitMetric runs have both completed successfully, the    *)
(* stored "metric_keys" list holds the ids of both metrics, so both stored  *)
(* "metric_<id>" entries are reachable by loadMetrics.                      *)
C31_NoKeyLost ==
  \A a, b \in Runs :
    (a # b /\ runs[a].pc = "done" /\ runs[b].pc = "done")
      => (/\ Len(getData(MetricKey(metricId(a)))) > 0
          /\ Len(getData(MetricKey(metricId(b)))) > 0
          /\ metricId(a) \in StoredKeys
          /\ metricId(b) \in StoredKeys)
====
